---------------------------- MODULE Spec2Model ----------------------------
(***************************************************************************)
(* A model of lui, a command-line client of open-webui: the response body  *)
(* is decoded into Output chunks (server.rs: TokenIter, OutputIter,        *)
(* get_complete_output), filtered by the OutputNormalizer (main.rs) and    *)
(* printed by process (main.rs).                                           *)
(*                                                                         *)
(* Text is a sequence of characters, each a one-character string; the      *)
(* character "U+00E9" stands for a character that UTF-8 encodes in two     *)
(* bytes.  On the wire a JSON document is one indivisible symbol carrying  *)
(* the values it holds.  Option<T> is a sequence of length at most one.    *)
(***************************************************************************)
EXTENDS Integers, Sequences, FiniteSets, TLC

\* Bounds of the explored inputs.
MaxLines == 3
MaxTokens == 4
\* the most prompts of an explored configuration
MaxPrompts == 2

--------------------------------------------------------------------------
\* Option<T>
None == << >>
Some(x) == << x >>
IsSome(o) == o # << >>
IsNone(o) == o = << >>
Unwrap(o) == o[1]

--------------------------------------------------------------------------
\* str

\* char::is_whitespace, on the characters of the model
IsWhitespace(c) == c \in {" ", "\n", "\r", "\t"}

\* char::len_utf8
len_utf8(c) == IF c = "U+00E9" THEN 2 ELSE 1

\* str::len of the first n characters of s: a byte count
RECURSIVE ByteLen(_, _)
ByteLen(s, n) == IF n = 0 THEN 0 ELSE ByteLen(s, n - 1) + len_utf8(s[n])

\* s.chars().skip(n).collect::<String>()
CharsSkip(s, n) == IF n >= Len(s) THEN << >> ELSE SubSeq(s, n + 1, Len(s))

\* str::starts_with
starts_with(s, pat) ==
    Len(pat) <= Len(s) /\ SubSeq(s, 1, Len(pat)) = pat

\* str::strip_prefix: the rest after pat, or None
strip_prefix(s, pat) ==
    IF starts_with(s, pat) THEN Some(CharsSkip(s, Len(pat))) ELSE None

\* str::find: the BYTE offset of the first match of pat in s, or None
find(s, pat) ==
    LET hits == {i \in 1..Len(s) : starts_with(CharsSkip(s, i - 1), pat)}
    IN  IF hits = {} THEN None
        ELSE LET i == CHOOSE h \in hits : \A k \in hits : h <= k
             IN  Some(ByteLen(s, i - 1))

\* the number of leading characters of s that are in set cs
RECURSIVE LeadIn(_, _)
LeadIn(s, cs) ==
    IF s = << >> \/ Head(s) \notin cs THEN 0 ELSE 1 + LeadIn(Tail(s), cs)

\* the number of trailing characters of s that are in set cs
RECURSIVE TrailIn(_, _)
TrailIn(s, cs) ==
    IF s = << >> \/ s[Len(s)] \notin cs THEN 0
    ELSE 1 + TrailIn(SubSeq(s, 1, Len(s) - 1), cs)

Whitespace == {" ", "\n", "\r", "\t"}
CrLf == {"\r", "\n"}

\* str::trim_start_matches([..])
trim_start_matches(s, cs) == CharsSkip(s, LeadIn(s, cs))

\* str::trim_end_matches([..])
trim_end_matches(s, cs) == SubSeq(s, 1, Len(s) - TrailIn(s, cs))

\* str::trim_matches([..])
trim_matches(s, cs) == trim_end_matches(trim_start_matches(s, cs), cs)

\* trim_start, removing one leading whitespace character at most
trim_start_OneChar(s) ==
    IF s # << >> /\ Head(s) \in Whitespace THEN Tail(s) ELSE s

\* str::trim_start
trim_start(s) == trim_start_matches(s, Whitespace)

\* str::trim_end
trim_end(s) == trim_end_matches(s, Whitespace)

\* [a, b, ..].join("")
RECURSIVE Join(_)
Join(ts) == IF ts = << >> THEN << >> ELSE Head(ts) \o Join(Tail(ts))

THINK == << "<", "t", "h", "i", "n", "k", ">" >>
ENDTHINK == << "<", "/", "t", "h", "i", "n", "k", ">" >>
NL == << "\n" >>


--------------------------------------------------------------------------
\* serde_json::Value, at the places the program reads

JNull == [t |-> "null", s |-> << >>, n |-> 0]
JStr(x) == [t |-> "str", s |-> x, n |-> 0]
JNum(k) == [t |-> "num", s |-> << >>, n |-> k]

\* Value::as_str
as_str(v) == IF v.t = "str" THEN Some(v.s) ELSE None

\* Value::as_u64: a number that is a non-negative integer
as_u64(v) == IF v.t = "num" /\ v.n >= 0 THEN Some(v.n) ELSE None

\* A JSON document, by the values found at the four paths the program
\* indexes: choices[0].delta.content, choices[0].message.content,
\* usage.prompt_tokens and usage.approximate_total (Null when missing).
Document(delta, message, pt, at) ==
    [delta_content |-> delta, message_content |-> message,
     prompt_tokens |-> pt, approximate_total |-> at]

\* struct Output
Output(message, prompt_tokens, approximate_total) ==
    [message |-> message, prompt_tokens |-> prompt_tokens,
     approximate_total |-> approximate_total]

--------------------------------------------------------------------------
\* The wire: a body is a sequence of symbols, each one character or the
\* text of one JSON document.

Ch(c) == [ch |-> c, doc |-> None]
JsonText(d) == [ch |-> "{}", doc |-> Some(d)]

CR == Ch("\r")
LF == Ch("\n")
DataPrefix == << Ch("d"), Ch("a"), Ch("t"), Ch("a"), Ch(":"), Ch(" ") >>
DoneText == << Ch("["), Ch("D"), Ch("O"), Ch("N"), Ch("E"), Ch("]") >>
\* a byte that is not valid UTF-8
InvalidByte == Ch("0xFF")

Range(f) == {f[i] : i \in DOMAIN f}

\* serde_json::from_str / Body::read_json: Ok(value) or Err
from_str(json) ==
    IF Len(json) = 1 /\ IsSome(json[1].doc) THEN Some(Unwrap(json[1].doc))
    ELSE None

\* read_line, handing out the next line without taking it off the input
read_line_Peeks(reader, buf) ==
    IF reader = << >>
    THEN [ok |-> TRUE, length |-> 0, buffer |-> buf, reader |-> reader]
    ELSE IF InvalidByte \in Range(Head(reader))
    THEN [ok |-> FALSE, length |-> 0, buffer |-> buf, reader |-> reader]
    ELSE [ok |-> TRUE, length |-> Len(Head(reader)),
          buffer |-> buf \o Head(reader), reader |-> reader]

\* BufRead::read_line on the remaining lines of the body: Ok(0) at the end
\* of input, Err on a line that cannot be read as UTF-8 (the line is
\* consumed, nothing is appended), else Ok(n) with the line appended.
read_line(reader, buf) ==
    IF reader = << >>
    THEN [ok |-> TRUE, length |-> 0, buffer |-> buf, reader |-> reader]
    ELSE IF InvalidByte \in Range(Head(reader))
    THEN [ok |-> FALSE, length |-> 0, buffer |-> buf,
          reader |-> Tail(reader)]
    ELSE [ok |-> TRUE, length |-> Len(Head(reader)),
          buffer |-> buf \o Head(reader), reader |-> Tail(reader)]

\* TokenOutput, reading prompt_tokens as any integer (as_i64 cast to u64
\* keeps the number without the test of its sign)
TokenOutput_AnyInteger(value) ==
    Output(IF IsSome(as_str(value.delta_content))
           THEN Unwrap(as_str(value.delta_content)) ELSE << >>,
           IF value.prompt_tokens.t = "num"
           THEN Some(value.prompt_tokens.n) ELSE None,
           as_str(value.approximate_total))

\* TokenIter::next, the chunk built from a parsed line
TokenOutput(value) ==
    Output(IF IsSome(as_str(value.delta_content))
           THEN Unwrap(as_str(value.delta_content)) ELSE << >>,
           as_u64(value.prompt_tokens),
           as_str(value.approximate_total))

\* ParseLine, skipping a line that lacks the prefix or holds no JSON like
\* an empty line
ParseLine_SkipsBadLines(buf) ==
    LET line == trim_matches(buf, {CR, LF})
        json == strip_prefix(line, DataPrefix)
        none(err) == [kind |-> "none", error |-> err, output |-> None]
        continue == [kind |-> "continue", error |-> None, output |-> None]
    IN  IF line = << >> THEN continue
        ELSE IF IsNone(json) THEN continue
        ELSE IF Unwrap(json) = DoneText THEN none(None)
        ELSE IF IsNone(from_str(Unwrap(json))) THEN continue
        ELSE [kind |-> "some", error |-> None,
              output |-> Some(TokenOutput(Unwrap(from_str(Unwrap(json)))))]

\* ParseLine, without the test for the [DONE] sentinel
ParseLine_NoSentinel(buf) ==
    LET line == trim_matches(buf, {CR, LF})
        json == strip_prefix(line, DataPrefix)
        none(err) == [kind |-> "none", error |-> err, output |-> None]
    IN  IF line = << >>
        THEN [kind |-> "continue", error |-> None, output |-> None]
        ELSE IF IsNone(json) THEN none(Some("server sent bad line"))
        ELSE IF IsNone(from_str(Unwrap(json)))
        THEN none(Some("server sent bad JSON"))
        ELSE [kind |-> "some", error |-> None,
              output |-> Some(TokenOutput(Unwrap(from_str(Unwrap(json)))))]

\* ParseLine, trimming the line breaks at the end of the buffer only
ParseLine_TrimsEndOnly(buf) ==
    LET line == trim_end_matches(buf, {CR, LF})
        json == strip_prefix(line, DataPrefix)
        none(err) == [kind |-> "none", error |-> err, output |-> None]
    IN  IF line = << >>
        THEN [kind |-> "continue", error |-> None, output |-> None]
        ELSE IF IsNone(json) THEN none(Some("server sent bad line"))
        ELSE IF Unwrap(json) = DoneText THEN none(None)
        ELSE IF IsNone(from_str(Unwrap(json)))
        THEN none(Some("server sent bad JSON"))
        ELSE [kind |-> "some", error |-> None,
              output |-> Some(TokenOutput(Unwrap(from_str(Unwrap(json)))))]

\* TokenIter::next, one turn of its loop after a line was read into the
\* buffer: what the turn does ("continue", "none" with an optional error
\* logged, or "some" with the chunk).
ParseLine(buf) ==
    LET line == trim_matches(buf, {CR, LF})
        json == strip_prefix(line, DataPrefix)
        none(err) == [kind |-> "none", error |-> err, output |-> None]
    IN  IF line = << >>
        THEN [kind |-> "continue", error |-> None, output |-> None]
        ELSE IF IsNone(json) THEN none(Some("server sent bad line"))
        ELSE IF Unwrap(json) = DoneText THEN none(None)
        ELSE IF IsNone(from_str(Unwrap(json)))
        THEN none(Some("server sent bad JSON"))
        ELSE [kind |-> "some", error |-> None,
              output |-> Some(TokenOutput(Unwrap(from_str(Unwrap(json)))))]

\* get_complete_output, taking the usage fields as the streamed decoding
\* does: absent when missing or of another type
get_complete_output_OptionalUsage(body) ==
    LET value == from_str(body)
        err(m) == [ok |-> FALSE, error |-> m, output |-> None]
    IN  IF IsNone(value) THEN err("not valid JSON")
        ELSE LET v == Unwrap(value)
             IN  IF IsNone(as_str(v.message_content))
                 THEN err("malformed response")
                 ELSE [ok |-> TRUE, error |-> "",
                       output |-> Some(Output(
                           Unwrap(as_str(v.message_content)),
                           as_u64(v.prompt_tokens),
                           as_str(v.approximate_total)))]

\* get_complete_output: Ok(Output) or Err(message)
get_complete_output(body) ==
    LET value == from_str(body)
        err(m) == [ok |-> FALSE, error |-> m, output |-> None]
    IN  IF IsNone(value) THEN err("not valid JSON")
        ELSE LET v == Unwrap(value)
             IN  IF IsNone(as_str(v.message_content))
                 THEN err("malformed response")
                 ELSE IF IsNone(as_u64(v.prompt_tokens))
                 THEN err("usage.prompt_tokens is not integer")
                 ELSE IF IsNone(as_str(v.approximate_total))
                 THEN err("malformed response")
                 ELSE [ok |-> TRUE, error |-> "",
                       output |-> Some(Output(
                           Unwrap(as_str(v.message_content)),
                           Some(Unwrap(as_u64(v.prompt_tokens))),
                           Some(Unwrap(as_str(v.approximate_total)))))]

\* remove_think_block, looking for the opener after leading whitespace and
\* dropping a think block that is never closed
remove_think_block_Lenient(message) ==
    IF starts_with(trim_start(message), THINK)
    THEN IF IsSome(find(message, ENDTHINK))
         THEN trim_start_matches(
                  CharsSkip(message, Unwrap(find(message, ENDTHINK)) + 8),
                  CrLf)
         ELSE << >>
    ELSE message

\* remove_think_block: find gives a byte offset, chars().skip counts
\* characters
remove_think_block(message) ==
    IF starts_with(message, THINK) /\ IsSome(find(message, ENDTHINK))
    THEN trim_start_matches(
             CharsSkip(message, Unwrap(find(message, ENDTHINK)) + 8), CrLf)
    ELSE message

--------------------------------------------------------------------------
\* OutputNormalizer::next, the body of its loop for one chunk

\* NormalizeComplete, appending the newline without trimming the end
NormalizeComplete_NoTrim(keep, out) ==
    LET clean == IF keep THEN out.message
                 ELSE remove_think_block(out.message)
    IN  [out EXCEPT !.message = clean \o NL]

\* complete mode (no_stream): the chunk as it is returned
NormalizeComplete(keep, out) ==
    LET clean == IF keep THEN out.message
                 ELSE remove_think_block(out.message)
    IN  [out EXCEPT !.message = trim_end(clean) \o NL]

\* NormalizeStreamed, leaving the think block at any chunk that follows the
\* opener instead of at </think>
NormalizeStreamed_ClosesEarly(keep, ever, inside, prev, out) ==
    IF ~keep /\ ~ever /\ out.message = THINK
    THEN [skip |-> TRUE, inside |-> TRUE, output |-> out]
    ELSE IF ~keep /\ inside
    THEN [skip |-> TRUE, inside |-> FALSE, output |-> out]
    ELSE IF IsNone(prev)
    THEN LET trimmed == [out EXCEPT !.message = trim_start(out.message)]
         IN  [skip |-> trimmed.message = << >>
                       /\ IsNone(out.prompt_tokens)
                       /\ IsNone(out.approximate_total),
              inside |-> inside, output |-> trimmed]
    ELSE [skip |-> FALSE, inside |-> inside,
          output |-> IF out.message = << >>
                     THEN [out EXCEPT !.message = NL] ELSE out]

\* NormalizeStreamed, eliding the think block whatever keep_think_block is
NormalizeStreamed_IgnoresKeep(keep, ever, inside, prev, out) ==
    IF ~ever /\ out.message = THINK
    THEN [skip |-> TRUE, inside |-> TRUE, output |-> out]
    ELSE IF inside
    THEN [skip |-> TRUE,
          inside |-> IF out.message = ENDTHINK THEN FALSE ELSE inside,
          output |-> out]
    ELSE IF IsNone(prev)
    THEN LET trimmed == [out EXCEPT !.message = trim_start(out.message)]
         IN  [skip |-> trimmed.message = << >>
                       /\ IsNone(out.prompt_tokens)
                       /\ IsNone(out.approximate_total),
              inside |-> inside, output |-> trimmed]
    ELSE [skip |-> FALSE, inside |-> inside,
          output |-> IF out.message = << >>
                     THEN [out EXCEPT !.message = NL] ELSE out]

\* NormalizeStreamed, building the closing newline as a chunk of its own,
\* without the usage metadata of the empty chunk
NormalizeStreamed_NewlineDropsUsage(keep, ever, inside, prev, out) ==
    IF ~keep /\ ~ever /\ out.message = THINK
    THEN [skip |-> TRUE, inside |-> TRUE, output |-> out]
    ELSE IF ~keep /\ inside
    THEN [skip |-> TRUE,
          inside |-> IF out.message = ENDTHINK THEN FALSE ELSE inside,
          output |-> out]
    ELSE IF IsNone(prev)
    THEN LET trimmed == [out EXCEPT !.message = trim_start(out.message)]
         IN  [skip |-> trimmed.message = << >>
                       /\ IsNone(out.prompt_tokens)
                       /\ IsNone(out.approximate_total),
              inside |-> inside, output |-> trimmed]
    ELSE [skip |-> FALSE, inside |-> inside,
          output |-> IF out.message = << >>
                     THEN Output(NL, None, None) ELSE out]

\* NormalizeStreamed, rewriting an empty text to a newline only when the
\* think block is elided
NormalizeStreamed_NewlineUnlessKeep(keep, ever, inside, prev, out) ==
    IF ~keep /\ ~ever /\ out.message = THINK
    THEN [skip |-> TRUE, inside |-> TRUE, output |-> out]
    ELSE IF ~keep /\ inside
    THEN [skip |-> TRUE,
          inside |-> IF out.message = ENDTHINK THEN FALSE ELSE inside,
          output |-> out]
    ELSE IF IsNone(prev)
    THEN LET trimmed == [out EXCEPT !.message = trim_start(out.message)]
         IN  [skip |-> trimmed.message = << >>
                       /\ IsNone(out.prompt_tokens)
                       /\ IsNone(out.approximate_total),
              inside |-> inside, output |-> trimmed]
    ELSE [skip |-> FALSE, inside |-> inside,
          output |-> IF out.message = << >> /\ ~keep
                     THEN [out EXCEPT !.message = NL] ELSE out]

\* NormalizeStreamed, suppressing an empty first visible chunk even when it
\* carries usage metadata
NormalizeStreamed_SkipsEmptyWithUsage(keep, ever, inside, prev, out) ==
    IF ~keep /\ ~ever /\ out.message = THINK
    THEN [skip |-> TRUE, inside |-> TRUE, output |-> out]
    ELSE IF ~keep /\ inside
    THEN [skip |-> TRUE,
          inside |-> IF out.message = ENDTHINK THEN FALSE ELSE inside,
          output |-> out]
    ELSE IF IsNone(prev)
    THEN LET trimmed == [out EXCEPT !.message = trim_start(out.message)]
         IN  [skip |-> trimmed.message = << >>,
              inside |-> inside, output |-> trimmed]
    ELSE [skip |-> FALSE, inside |-> inside,
          output |-> IF out.message = << >>
                     THEN [out EXCEPT !.message = NL] ELSE out]

\* NormalizeStreamed, rewriting an empty text to a newline in the first
\* visible chunk too
NormalizeStreamed_NewlineInFirstVisible(keep, ever, inside, prev, out) ==
    IF ~keep /\ ~ever /\ out.message = THINK
    THEN [skip |-> TRUE, inside |-> TRUE, output |-> out]
    ELSE IF ~keep /\ inside
    THEN [skip |-> TRUE,
          inside |-> IF out.message = ENDTHINK THEN FALSE ELSE inside,
          output |-> out]
    ELSE IF IsNone(prev)
    THEN LET trimmed == [out EXCEPT !.message = trim_start(out.message)]
             skip == trimmed.message = << >>
                       /\ IsNone(out.prompt_tokens)
                       /\ IsNone(out.approximate_total)
         IN  [skip |-> skip, inside |-> inside,
              output |-> IF trimmed.message = << >>
                         THEN [trimmed EXCEPT !.message = NL] ELSE trimmed]
    ELSE [skip |-> FALSE, inside |-> inside,
          output |-> IF out.message = << >>
                     THEN [out EXCEPT !.message = NL] ELSE out]

\* NormalizeStreamed, opening a think block at any <think> chunk met outside
\* of one, not only at the first chunk read
NormalizeStreamed_AnyOpener(keep, ever, inside, prev, out) ==
    IF ~keep /\ ~inside /\ out.message = THINK
    THEN [skip |-> TRUE, inside |-> TRUE, output |-> out]
    ELSE IF ~keep /\ inside
    THEN [skip |-> TRUE,
          inside |-> IF out.message = ENDTHINK THEN FALSE ELSE inside,
          output |-> out]
    ELSE IF IsNone(prev)
    THEN LET trimmed == [out EXCEPT !.message = trim_start(out.message)]
         IN  [skip |-> trimmed.message = << >>
                       /\ IsNone(out.prompt_tokens)
                       /\ IsNone(out.approximate_total),
              inside |-> inside, output |-> trimmed]
    ELSE [skip |-> FALSE, inside |-> inside,
          output |-> IF out.message = << >>
                     THEN [out EXCEPT !.message = NL] ELSE out]

\* NormalizeStreamed, letting a chunk that carries usage metadata out of
\* the think block
NormalizeStreamed_UsageLeavesThinkBlock(keep, ever, inside, prev, out) ==
    IF ~keep /\ ~ever /\ out.message = THINK
    THEN [skip |-> TRUE, inside |-> TRUE, output |-> out]
    ELSE IF ~keep /\ inside
    THEN [skip |-> IsNone(out.prompt_tokens) /\ IsNone(out.approximate_total),
          inside |-> IF out.message = ENDTHINK THEN FALSE ELSE inside,
          output |-> out]
    ELSE IF IsNone(prev)
    THEN LET trimmed == [out EXCEPT !.message = trim_start(out.message)]
         IN  [skip |-> trimmed.message = << >>
                       /\ IsNone(out.prompt_tokens)
                       /\ IsNone(out.approximate_total),
              inside |-> inside, output |-> trimmed]
    ELSE [skip |-> FALSE, inside |-> inside,
          output |-> IF out.message = << >>
                     THEN [out EXCEPT !.message = NL] ELSE out]

\* NormalizeStreamed, trimming the leading whitespace of every chunk and not
\* only of the first that is returned
NormalizeStreamed_TrimsEveryChunk(keep, ever, inside, prev, out) ==
    IF ~keep /\ ~ever /\ out.message = THINK
    THEN [skip |-> TRUE, inside |-> TRUE, output |-> out]
    ELSE IF ~keep /\ inside
    THEN [skip |-> TRUE,
          inside |-> IF out.message = ENDTHINK THEN FALSE ELSE inside,
          output |-> out]
    ELSE IF IsNone(prev)
    THEN LET trimmed == [out EXCEPT !.message = trim_start(out.message)]
         IN  [skip |-> trimmed.message = << >>
                       /\ IsNone(out.prompt_tokens)
                       /\ IsNone(out.approximate_total),
              inside |-> inside, output |-> trimmed]
    ELSE [skip |-> FALSE, inside |-> inside,
          output |-> IF out.message = << >>
                     THEN [out EXCEPT !.message = NL]
                     ELSE [out EXCEPT !.message = trim_start(out.message)]]

\* streamed mode: whether the chunk is skipped, the new inside_think_block
\* and the chunk as it would be returned
NormalizeStreamed(keep, ever, inside, prev, out) ==
    IF ~keep /\ ~ever /\ out.message = THINK
    THEN [skip |-> TRUE, inside |-> TRUE, output |-> out]
    ELSE IF ~keep /\ inside
    THEN [skip |-> TRUE,
          inside |-> IF out.message = ENDTHINK THEN FALSE ELSE inside,
          output |-> out]
    ELSE IF IsNone(prev)
    THEN LET trimmed == [out EXCEPT !.message = trim_start(out.message)]
         IN  [skip |-> trimmed.message = << >>
                       /\ IsNone(out.prompt_tokens)
                       /\ IsNone(out.approximate_total),
              inside |-> inside, output |-> trimmed]
    ELSE [skip |-> FALSE, inside |-> inside,
          output |-> IF out.message = << >>
                     THEN [out EXCEPT !.message = NL] ELSE out]

--------------------------------------------------------------------------
\* Config::resolve_prompt (config.rs)

\* struct Prompt, the fields config.rs gives it
Prompt(label, question, model) ==
    [label |-> label, question |-> question, model |-> model]

\* Option::or
Or(a, b) == IF IsSome(a) THEN a ELSE b

\* a text as format! inserts it into a message
RECURSIVE Str(_)
Str(s) == IF s = << >> THEN "" ELSE Head(s) \o Str(Tail(s))

\* find_prompt, returning the last prompt with the label
RECURSIVE find_prompt_LastMatch(_, _)
find_prompt_LastMatch(prompts, label) ==
    IF prompts = << >> THEN None
    ELSE IF prompts[Len(prompts)].label = label
    THEN Some(prompts[Len(prompts)])
    ELSE find_prompt_LastMatch(SubSeq(prompts, 1, Len(prompts) - 1), label)

\* Config::find_prompt over self.prompt: the first prompt with the label
RECURSIVE find_prompt(_, _)
find_prompt(prompts, label) ==
    IF prompts = << >> THEN None
    ELSE IF Head(prompts).label = label THEN Some(Head(prompts))
    ELSE find_prompt(Tail(prompts), label)

\* resolve_prompt, treating an empty question like a missing one
resolve_prompt_EmptyIsMissing(config, question, model) ==
    LET err(m) == [ok |-> FALSE, error |-> m, prompt |-> None]
        ok(p) == [ok |-> TRUE, error |-> "", prompt |-> Some(p)]
        labelled(found, m) ==
            IF IsNone(found) THEN err(m)
            ELSE ok([Unwrap(found) EXCEPT
                       !.model = Or(Or(model, Unwrap(found).model),
                                    config.default_model)])
    IN  IF IsSome(question) /\ Unwrap(question) # << >>
           /\ ~starts_with(Unwrap(question), << "@" >>)
        THEN IF IsNone(Or(model, config.default_model))
             THEN err("no default model specified")
             ELSE ok(Prompt(<< >>, Unwrap(question),
                            Or(model, config.default_model)))
        ELSE IF IsNone(question) \/ Unwrap(question) = << >>
        THEN IF IsNone(config.default_prompt)
             THEN err("no default prompt specified")
             ELSE labelled(find_prompt(config.prompt,
                                       Unwrap(config.default_prompt)),
                           "default prompt '"
                               \o Str(Unwrap(config.default_prompt))
                               \o "' not found")
        ELSE LET label == CharsSkip(Unwrap(question), 1)
             IN  labelled(find_prompt(config.prompt, label),
                          "prompt '" \o Str(label) \o "' not found")

\* Config::resolve_prompt: Ok(Prompt) or Err(message)
resolve_prompt(config, question, model) ==
    LET err(m) == [ok |-> FALSE, error |-> m, prompt |-> None]
        ok(p) == [ok |-> TRUE, error |-> "", prompt |-> Some(p)]
        \* the prompt found, with its model replaced
        labelled(found, m) ==
            IF IsNone(found) THEN err(m)
            ELSE ok([Unwrap(found) EXCEPT
                       !.model = Or(Or(model, Unwrap(found).model),
                                    config.default_model)])
    IN  IF IsSome(question) /\ ~starts_with(Unwrap(question), << "@" >>)
        THEN \* question is text
             IF Unwrap(question) = << >> THEN err("prompt is empty")
             ELSE IF IsNone(Or(model, config.default_model))
             THEN err("no default model specified")
             ELSE ok(Prompt(<< >>, Unwrap(question),
                            Or(model, config.default_model)))
        ELSE IF IsNone(question)
        THEN \* question is missing
             IF IsNone(config.default_prompt)
             THEN err("no default prompt specified")
             ELSE labelled(find_prompt(config.prompt,
                                       Unwrap(config.default_prompt)),
                           "default prompt '"
                               \o Str(Unwrap(config.default_prompt))
                               \o "' not found")
        ELSE \* question starts with '@'
             LET label == CharsSkip(Unwrap(question), 1)
             IN  labelled(find_prompt(config.prompt, label),
                          "prompt '" \o Str(label) \o "' not found")

--------------------------------------------------------------------------
\* The inputs: what the server may reply

\* a streamed line `data: {"choices":[{"delta":{"content":"<text>"}}]}`
ContentLine(text) ==
    DataPrefix \o << JsonText(Document(JStr(text), JNull, JNull, JNull)) >>
        \o << CR, LF >>

FooBar == << "f", "o", "o", " ", "b", "a", "r" >>

\* `data: {"usage":{"prompt_tokens":2,"approximate_total":"foo bar"}}`
UsageLine ==
    DataPrefix \o << JsonText(Document(JNull, JNull, JNum(2), JStr(FooBar))) >>
        \o << CR, LF >>

\* a line whose fields have other types than the program reads: content a
\* number, prompt_tokens an integer, approximate_total a number
MistypedLine ==
    DataPrefix \o << JsonText(Document(JNum(7), JNull, JNum(2), JNum(3))) >>
        \o << CR, LF >>

\* `data: {"choices":[{"delta":{"content":"a"}}],
\*         "usage":{"prompt_tokens":-1,"approximate_total":"foo bar"}}`
NegativeTokensLine ==
    DataPrefix
        \o << JsonText(Document(JStr(<< "a" >>), JNull, JNum(0 - 1),
                                JStr(FooBar))) >>
        \o << CR, LF >>

BlankLine == << CR, LF >>
DoneLine == DataPrefix \o DoneText \o << CR, LF >>
NoPrefixLine == << Ch("x"), CR, LF >>
BadJsonLine == DataPrefix \o << Ch("x"), CR, LF >>
UnreadableLine == << InvalidByte, LF >>

\* the texts of the explored streamed chunks
StreamTokens ==
    { THINK, ENDTHINK, << >>, << "\n", "\n" >>, << " ", "b" >>, << "a" >>,
      THINK \o << "a" >> }

StreamLines ==
    {ContentLine(t) : t \in StreamTokens}
        \cup { UsageLine, MistypedLine, NegativeTokensLine, BlankLine,
               DoneLine, NoPrefixLine, BadJsonLine, UnreadableLine }

SeqsUpTo(S, n) == UNION {[1..k -> S] : k \in 0..n}

\* tests::new_streamed_output_reader: one line per token, then the usage
\* line
RECURSIVE TokenLines(_)
TokenLines(tokens) ==
    IF tokens = << >> THEN << >>
    ELSE << ContentLine(Head(tokens)) >> \o TokenLines(Tail(tokens))

new_streamed_output_reader(tokens) == TokenLines(tokens) \o << UsageLine >>

\* tests::new_complete_output_reader
new_complete_output_reader(tokens) ==
    << JsonText(Document(JNull, JStr(Join(tokens)), JNum(2), JStr(FooBar))) >>

\* the token sequence of the four tests of main.rs
TestTokens ==
    << THINK, << "a", "s", "d", "f" >>,
       << " ", "q", "w", "e", "r", "t", "y" >>, ENDTHINK, << "\n", "\n" >>,
       << "l", "o", "r", "e", "m" >>, << " ", "i", "p", "s", "u", "m" >> >>

\* a think block that holds a character of two bytes, then an answer
WideThinkTokens == << THINK, << "U+00E9" >>, ENDTHINK, << "a" >> >>

StreamBodies ==
    SeqsUpTo(StreamLines, MaxLines)
        \cup { new_streamed_output_reader(TestTokens),
               new_streamed_output_reader(WideThinkTokens) }

\* the pieces of the explored complete texts
CompleteTokens ==
    { THINK, ENDTHINK, << "U+00E9" >>, << "a" >>, << " " >>, << "\n" >> }

CompleteBodies ==
    {new_complete_output_reader(ts) : ts \in SeqsUpTo(CompleteTokens, MaxTokens)}
        \cup { new_complete_output_reader(TestTokens),
               << Ch("x") >>,
               << JsonText(Document(JNull, JNull, JNum(2), JStr(FooBar))) >>,
               << JsonText(Document(JNull, JStr(<< "a" >>), JNum(0 - 1),
                                    JStr(FooBar))) >>,
               << JsonText(Document(JNull, JStr(<< "a" >>), JNum(2), JNull)) >>,
               << JsonText(Document(JNull, JNum(7), JNum(2), JStr(FooBar))) >>,
               << JsonText(Document(JNull, JStr(<< "a" >>), JStr(<< "2" >>),
                                    JStr(FooBar))) >>,
               << JsonText(Document(JNull, JStr(<< "a" >>), JNum(2),
                                    JNum(3))) >> }

\* what ureq's send_json gives: a transport error or a response body
Responses(stream) ==
    { [ok |-> FALSE, body |-> << >>] }
        \cup { [ok |-> TRUE, body |-> b] :
                 b \in IF stream THEN StreamBodies ELSE CompleteBodies }


\* The inputs: the configuration and the arguments

LabelFoo == << "f", "o", "o" >>
LabelBar == << "b", "a", "r" >>
LabelAsdf == << "a", "s", "d", "f" >>

\* tests::make_prompts
PromptFoo == Prompt(LabelFoo, LabelFoo \o << " " >> \o LabelBar, Some("foo"))
PromptBar == Prompt(LabelBar, LabelBar \o << " " >> \o LabelFoo, Some("bar"))
make_prompts == << PromptFoo, PromptBar >>

\* a second prompt labelled foo, without a model of its own
PromptFooNoModel == Prompt(LabelFoo, << "b", "a", "z" >>, None)

\* the explored configurations: Config::default_prompt, default_model and
\* prompt
Configs ==
    { [default_prompt |-> dp, default_model |-> dm, prompt |-> ps] :
        dp \in {None, Some(LabelFoo), Some(LabelAsdf)},
        dm \in {None, Some("m")},
        ps \in SeqsUpTo({PromptFoo, PromptBar, PromptFooNoModel},
                        MaxPrompts) }

\* Args::question
Questions ==
    { None, Some(<< >>), Some(<< ".", ".", "." >>), Some(<< "@" >>),
      Some(<< "@" >> \o LabelFoo), Some(<< "@" >> \o LabelBar),
      Some(<< "@" >> \o LabelAsdf) }

\* Args::model
Models == { None, Some("um") }

--------------------------------------------------------------------------
\* The program

VARIABLES
    keep_think_block,     \* Args::keep_think_block
    no_stream,            \* Args::no_stream
    pc,                   \* where process and the iterators it drives are
    prompt_model,         \* Prompt::model of the resolved prompt
    requests,             \* the HTTP requests issued
    body,                 \* the response body as the server sent it
    reader,               \* TokenIter::reader: the lines not yet read
    iter_output,          \* OutputIter::output
    buffer,               \* TokenIter::next: buffer
    output,               \* OutputNormalizer::next: the chunk in the loop
    ever_read,            \* OutputNormalizer::ever_read
    prev_returned_output, \* OutputNormalizer::prev_returned_output
    inside_think_block,   \* OutputNormalizer::inside_think_block
    item,                 \* process: the chunk its loop is printing
    stdout,               \* the text printed
    log,                  \* the messages of log::error!
    result,               \* what process returned
    exit_status,          \* the status the process exited with
    raw,                  \* history: the chunks the reader produced
    yielded,              \* history: the chunks the normalizer returned
    yielded_from,         \* history: for each of them, its place in raw
    ended,                \* history: why the reader reported its end
    resolved              \* the call of resolve_prompt that is examined

vars ==
    << keep_think_block, no_stream, pc, prompt_model, requests, body, reader,
       iter_output, buffer, output, ever_read, prev_returned_output,
       inside_think_block, item, stdout, log, result, exit_status, raw,
       yielded, yielded_from, ended, resolved >>

args == << keep_think_block, no_stream >>
normalizer == << ever_read, prev_returned_output, inside_think_block >>
history == << raw, yielded, yielded_from >>

\* OutputNormalizer::new, and process before its first statement
Init ==
    /\ keep_think_block \in BOOLEAN
    /\ no_stream \in BOOLEAN
    /\ pc = "start"
    /\ prompt_model = None
    /\ requests = 0
    /\ body = << >>
    /\ reader = << >>
    /\ iter_output = None
    /\ buffer = << >>
    /\ output = None
    /\ ever_read = FALSE
    /\ prev_returned_output = None
    /\ inside_think_block = FALSE
    /\ item = None
    /\ stdout = << >>
    /\ log = << >>
    /\ result = None
    /\ exit_status = None
    /\ raw = << >>
    /\ yielded = << >>
    /\ yielded_from = << >>
    /\ ended = ""
    /\ resolved = None

\* process returns: Ok(()) or Err(message)
Return(r) ==
    /\ pc' = "returned"
    /\ result' = Some(r)

\* process, up to the request: Config::load, Config::resolve_prompt and
\* Context::load each succeed or return an error, --rag panics
Start ==
    /\ pc = "start"
    /\ \E loaded \in BOOLEAN, config \in Configs, question \in Questions,
          model \in Models, included \in BOOLEAN, rag \in BOOLEAN :
         LET got == resolve_prompt(config, question, model)
         IN  IF ~loaded
             THEN /\ Return("Err: configuration")
                  /\ UNCHANGED << prompt_model, exit_status >>
             ELSE IF ~got.ok
             THEN /\ Return("Err: " \o got.error)
                  /\ UNCHANGED << prompt_model, exit_status >>
             ELSE IF ~included
             THEN /\ Return("Err: context")
                  /\ UNCHANGED << prompt_model, exit_status >>
             ELSE IF rag
             THEN /\ pc' = "exited"
                  /\ exit_status' = Some(101)
                  /\ prompt_model' = Unwrap(got.prompt).model
                  /\ UNCHANGED result
             ELSE /\ pc' = "send"
                  /\ prompt_model' = Unwrap(got.prompt).model
                  /\ UNCHANGED << result, exit_status >>
    /\ UNCHANGED << resolved, args, requests, body, reader, iter_output,
                    buffer, output, normalizer, item, stdout, log, history,
                    ended >>

\* Send, posting the request before it looks for the model
Send_PostsBeforeModelCheck ==
    /\ pc = "send"
    /\ prompt_model' = None
    /\ IF IsNone(prompt_model)
       THEN /\ requests' = requests + 1
            /\ Return("Err: no model specified")
            /\ UNCHANGED << body, reader, iter_output >>
       ELSE \E response \in Responses(~no_stream) :
              /\ requests' = requests + 1
              /\ body' = response.body
              /\ IF ~response.ok
                 THEN /\ Return("Err: transport")
                      /\ UNCHANGED << reader, iter_output >>
                 ELSE IF ~no_stream
                 THEN /\ reader' = response.body
                      /\ pc' = "next"
                      /\ UNCHANGED << iter_output, result >>
                 ELSE LET got == get_complete_output(response.body)
                      IN  IF got.ok
                          THEN /\ iter_output' = got.output
                               /\ pc' = "next"
                               /\ UNCHANGED << reader, result >>
                          ELSE /\ Return("Err: " \o got.error)
                               /\ UNCHANGED << reader, iter_output >>
    /\ UNCHANGED << resolved, args, buffer, output, normalizer, item, stdout,
                    log, exit_status, history, ended >>

\* Server::send.  The prompt is read here, to build the request, and
\* nowhere after: it is let go of, so that runs which differ in the name of
\* the model alone go on as one.
Send ==
    /\ pc = "send"
    /\ prompt_model' = None
    /\ IF IsNone(prompt_model)
       THEN /\ Return("Err: no model specified")
            /\ UNCHANGED << requests, body, reader, iter_output >>
       ELSE \E response \in Responses(~no_stream) :
              /\ requests' = requests + 1
              /\ body' = response.body
              /\ IF ~response.ok
                 THEN /\ Return("Err: transport")
                      /\ UNCHANGED << reader, iter_output >>
                 ELSE IF ~no_stream
                 THEN /\ reader' = response.body
                      /\ pc' = "next"
                      /\ UNCHANGED << iter_output, result >>
                 ELSE LET got == get_complete_output(response.body)
                      IN  IF got.ok
                          THEN /\ iter_output' = got.output
                               /\ pc' = "next"
                               /\ UNCHANGED << reader, result >>
                          ELSE /\ Return("Err: " \o got.error)
                               /\ UNCHANGED << reader, iter_output >>
    /\ UNCHANGED << resolved, args, buffer, output, normalizer, item, stdout,
                    log, exit_status, history, ended >>

\* the reader reports its end: OutputNormalizer::next returns None, the
\* loop of process ends and process returns Ok(())
ReaderEnds(why) ==
    /\ ended' = why
    /\ output' = None
    /\ Return("Ok")

\* the reader produces a chunk: the loop of OutputNormalizer::next takes it
ReaderProduces(out) ==
    /\ output' = Some(out)
    /\ raw' = Append(raw, out)
    /\ pc' = "normalize"

\* ReaderNext with an OutputIter::next that leaves its output in place
ReaderNext_KeepsOutput ==
    /\ pc = "next"
    /\ IF no_stream
       THEN /\ UNCHANGED iter_output
            /\ IF IsSome(iter_output)
               THEN /\ ReaderProduces(Unwrap(iter_output))
                    /\ UNCHANGED << ended, result >>
               ELSE /\ ReaderEnds("taken")
                    /\ UNCHANGED raw
            /\ UNCHANGED buffer
       ELSE /\ buffer' = << >>
            /\ pc' = "read"
            /\ UNCHANGED << iter_output, output, raw, ended, result >>
    /\ UNCHANGED << resolved, args, prompt_model, requests, body, reader,
                    normalizer, item, stdout, log, exit_status, yielded,
                    yielded_from >>

\* OutputReader::next as OutputNormalizer::next calls it: OutputIter::next,
\* or the entry of TokenIter::next
ReaderNext ==
    /\ pc = "next"
    /\ IF no_stream
       THEN /\ iter_output' = None
            /\ IF IsSome(iter_output)
               THEN /\ ReaderProduces(Unwrap(iter_output))
                    /\ UNCHANGED << ended, result >>
               ELSE /\ ReaderEnds("taken")
                    /\ UNCHANGED raw
            /\ UNCHANGED buffer
       ELSE /\ buffer' = << >>
            /\ pc' = "read"
            /\ UNCHANGED << iter_output, output, raw, ended, result >>
    /\ UNCHANGED << resolved, args, prompt_model, requests, body, reader,
                    normalizer, item, stdout, log, exit_status, yielded,
                    yielded_from >>

\* TokenIter::next, one turn of its loop
ReadLine ==
    /\ pc = "read"
    /\ LET got == read_line(reader, buffer)
           turn == ParseLine(got.buffer)
       IN  /\ reader' = got.reader
           /\ buffer' = got.buffer
           /\ IF ~got.ok
              THEN /\ ReaderEnds("read error")
                   /\ UNCHANGED << raw, log >>
              ELSE IF got.length = 0
              THEN /\ ReaderEnds("end of input")
                   /\ UNCHANGED << raw, log >>
              ELSE IF turn.kind = "continue"
              THEN UNCHANGED << pc, output, raw, log, ended, result >>
              ELSE IF turn.kind = "none"
              THEN /\ ReaderEnds(IF IsSome(turn.error)
                                 THEN Unwrap(turn.error) ELSE "[DONE]")
                   /\ log' = log \o turn.error
                   /\ UNCHANGED raw
              ELSE /\ ReaderProduces(Unwrap(turn.output))
                   /\ UNCHANGED << log, ended, result >>
    /\ UNCHANGED << resolved, args, prompt_model, requests, body,
                    iter_output, normalizer, item, stdout, exit_status,
                    yielded, yielded_from >>

\* Normalize without the assignment to ever_read
Normalize_ForgetsEverRead ==
    /\ pc = "normalize"
    /\ LET out == Unwrap(output)
           step == IF no_stream
                   THEN [skip |-> FALSE, inside |-> inside_think_block,
                         output |-> NormalizeComplete(keep_think_block, out)]
                   ELSE NormalizeStreamed(keep_think_block, ever_read,
                                          inside_think_block,
                                          prev_returned_output, out)
       IN  /\ inside_think_block' = step.inside
           /\ UNCHANGED ever_read
           /\ output' = None
           /\ IF step.skip
              THEN /\ pc' = "next"
                   /\ UNCHANGED << prev_returned_output, item, yielded,
                                   yielded_from >>
              ELSE /\ prev_returned_output' = Some(step.output)
                   /\ item' = Some(step.output)
                   /\ yielded' = Append(yielded, step.output)
                   /\ yielded_from' = Append(yielded_from, Len(raw))
                   /\ pc' = "print"
    /\ UNCHANGED << resolved, args, prompt_model, requests, body, reader,
                    iter_output, buffer, stdout, log, result, exit_status,
                    raw, ended >>

\* OutputNormalizer::next, the body of its loop
Normalize ==
    /\ pc = "normalize"
    /\ LET out == Unwrap(output)
           step == IF no_stream
                   THEN [skip |-> FALSE, inside |-> inside_think_block,
                         output |-> NormalizeComplete(keep_think_block, out)]
                   ELSE NormalizeStreamed(keep_think_block, ever_read,
                                          inside_think_block,
                                          prev_returned_output, out)
       IN  /\ inside_think_block' = step.inside
           /\ ever_read' = TRUE
           /\ output' = None
           /\ IF step.skip
              THEN /\ pc' = "next"
                   /\ UNCHANGED << prev_returned_output, item, yielded,
                                   yielded_from >>
              ELSE /\ prev_returned_output' = Some(step.output)
                   /\ item' = Some(step.output)
                   /\ yielded' = Append(yielded, step.output)
                   /\ yielded_from' = Append(yielded_from, Len(raw))
                   /\ pc' = "print"
    /\ UNCHANGED << resolved, args, prompt_model, requests, body, reader,
                    iter_output, buffer, stdout, log, result, exit_status,
                    raw, ended >>

\* process, the body of its loop: print!("{}", output.message)
PrintOutput ==
    /\ pc = "print"
    /\ stdout' = stdout \o Unwrap(item).message
    /\ item' = None
    /\ pc' = "next"
    /\ UNCHANGED << resolved, args, prompt_model, requests, body, reader,
                    iter_output, buffer, output, normalizer, log, result,
                    exit_status, history, ended >>

\* main: exit(0) on Ok, log the error and exit(1) on Err
Exit ==
    /\ pc = "returned"
    /\ pc' = "exited"
    /\ IF Unwrap(result) = "Ok"
       THEN /\ exit_status' = Some(0)
            /\ UNCHANGED log
       ELSE /\ log' = Append(log, Unwrap(result))
            /\ exit_status' = Some(1)
    /\ UNCHANGED << resolved, args, prompt_model, requests, body, reader,
                    iter_output, buffer, output, normalizer, item, stdout,
                    result, history, ended >>

Next ==
    \/ Start
    \/ Send
    \/ ReaderNext
    \/ ReadLine
    \/ Normalize
    \/ PrintOutput
    \/ Exit

Spec == Init /\ [][Next]_vars

\* OutputNormalizer::next called once more after it returned None, as a
\* holder of the iterator may (the tests call next themselves): its loop
\* runs on output_reader.by_ref() and so pulls the reader again
LatePull ==
    /\ pc = "returned"
    /\ result = Some("Ok")
    /\ ended # ""
    /\ pc' = "next"
    /\ result' = None
    /\ UNCHANGED << resolved, args, prompt_model, requests, body, reader,
                    iter_output, buffer, output, normalizer, item, stdout,
                    log, exit_status, history, ended >>

NextPulls == Next \/ LatePull

\* the program, and pulls that follow the end of the sequence
SpecPulls == Init /\ [][NextPulls]_vars

\* Config::resolve_prompt called on its own, as tests::
\* resolve_prompt_handles_all_scenarios calls it: the call and what it
\* returned are kept
Resolve ==
    /\ pc = "start"
    /\ resolved = None
    /\ \E config \in Configs, question \in Questions, model \in Models :
         resolved' = Some([config |-> config, question |-> question,
                           model |-> model,
                           result |-> resolve_prompt(config, question,
                                                     model)])
    /\ UNCHANGED << args, pc, prompt_model, requests, body, reader,
                    iter_output, buffer, output, normalizer, item, stdout,
                    log, result, exit_status, history, ended >>

NextResolve == Resolve

SpecResolve == Init /\ [][NextResolve]_vars

--------------------------------------------------------------------------
\* Vocabulary of the properties

Streamed == ~no_stream
Terminated == pc \in {"returned", "exited"}

\* raw[j] has gone through the loop body of OutputNormalizer::next
Processed(j) == j < Len(raw) \/ (j = Len(raw) /\ pc # "normalize")

\* raw[j] was yielded, and as which chunk
IsYielded(j) == \E k \in 1..Len(yielded_from) : yielded_from[k] = j
YieldedAs(j) == yielded[CHOOSE k \in 1..Len(yielded_from) : yielded_from[k] = j]

\* some chunk before raw[j] was yielded
YieldedBefore(j) == \E k \in 1..Len(yielded_from) : yielded_from[k] < j

NoUsage(o) == IsNone(o.prompt_tokens) /\ IsNone(o.approximate_total)
SameUsage(a, b) ==
    /\ a.prompt_tokens = b.prompt_tokens
    /\ a.approximate_total = b.approximate_total

\* t is s without its leading whitespace
IsLeadingTrimOf(t, s) ==
    /\ Len(t) <= Len(s)
    /\ t = SubSeq(s, Len(s) - Len(t) + 1, Len(s))
    /\ \A i \in 1..(Len(s) - Len(t)) : IsWhitespace(s[i])
    /\ (t # << >> => ~IsWhitespace(t[1]))

\* t is s without its trailing whitespace
IsTrailingTrimOf(t, s) ==
    /\ Len(t) <= Len(s)
    /\ t = SubSeq(s, 1, Len(t))
    /\ \A i \in (Len(t) + 1)..Len(s) : IsWhitespace(s[i])
    /\ (t # << >> => ~IsWhitespace(t[Len(t)]))

\* the first-visible rule on raw[j]: leading whitespace stripped, suppressed
\* iff the stripped text is empty and there is no usage metadata
FirstVisibleRule(j) ==
    /\ IsYielded(j) <=>
         ~((\A i \in 1..Len(raw[j].message) :
                IsWhitespace(raw[j].message[i]))
           /\ NoUsage(raw[j]))
    /\ IsYielded(j) =>
         /\ IsLeadingTrimOf(YieldedAs(j).message, raw[j].message)
         /\ SameUsage(YieldedAs(j), raw[j])

\* the place in raw of the first chunk after the first whose text is
\* exactly </think>, or 0
FirstCloser ==
    LET cs == {c \in 2..Len(raw) : raw[c].message = ENDTHINK}
    IN  IF cs = {} THEN 0 ELSE CHOOSE c \in cs : \A d \in cs : c <= d

TestStream == new_streamed_output_reader(TestTokens)
TestComplete == new_complete_output_reader(TestTokens)

--------------------------------------------------------------------------
\* C1: streamed, keep_think_block = false, first raw chunk exactly <think>:
\* that chunk and every chunk up to and including the first chunk that is
\* exactly </think> are suppressed, the chunks after the closer fall under
\* the first-visible rule until one is yielded, and the token sequence of
\* the test yields exactly "lorem", " ipsum" and "\n" with the usage.
C1_StreamedThinkBlockElided ==
    (Streamed /\ ~keep_think_block /\ raw # << >> /\ raw[1].message = THINK)
    => /\ \A j \in 1..Len(raw) :
            (Processed(j) /\ (FirstCloser = 0 \/ j <= FirstCloser))
                => ~IsYielded(j)
       /\ \A j \in 1..Len(raw) :
            (Processed(j) /\ FirstCloser # 0 /\ j > FirstCloser
                /\ ~YieldedBefore(j)) => FirstVisibleRule(j)
       /\ (body = TestStream /\ Terminated)
            => yielded = << Output(TestTokens[6], None, None),
                            Output(TestTokens[7], None, None),
                            Output(NL, Some(2), Some(FooBar)) >>

C1_Witness ==
    /\ Streamed /\ ~keep_think_block /\ pc = "exited"
    /\ body = TestStream
    /\ Len(raw) = 8 /\ Len(yielded) = 3

--------------------------------------------------------------------------
\* the characters of s that follow the first occurrence of pat in s
AfterFirst(s, pat) ==
    LET hits == {i \in 1..Len(s) : starts_with(CharsSkip(s, i - 1), pat)}
        i == CHOOSE h \in hits : \A k \in hits : h <= k
    IN  CharsSkip(s, i - 1 + Len(pat))

Contains(s, pat) ==
    \E i \in 1..Len(s) : starts_with(CharsSkip(s, i - 1), pat)

\* t is s without its leading carriage returns and line feeds
IsLineBreakTrimOf(t, s) ==
    /\ Len(t) <= Len(s)
    /\ t = SubSeq(s, Len(s) - Len(t) + 1, Len(s))
    /\ \A i \in 1..(Len(s) - Len(t)) : s[i] \in CrLf
    /\ (t # << >> => t[1] \notin CrLf)

\* t is s with its trailing whitespace trimmed and one newline appended
IsNormalizedEndOf(t, s) ==
    /\ t # << >>
    /\ t[Len(t)] = "\n"
    /\ IsTrailingTrimOf(SubSeq(t, 1, Len(t) - 1), s)

\* C2: complete mode, keep_think_block = false, a text that starts with
\* <think> and contains </think>: exactly one chunk is yielded, its text is
\* what follows the first </think>, without the line breaks that follow it
\* immediately, with trailing whitespace trimmed and one newline appended,
\* and its usage metadata is that of the input chunk.
C2_CompleteThinkBlockRemoved ==
    (no_stream /\ ~keep_think_block /\ Terminated /\ raw # << >>
        /\ starts_with(raw[1].message, THINK)
        /\ Contains(raw[1].message, ENDTHINK))
    => /\ Len(yielded) = 1
       /\ SameUsage(yielded[1], raw[1])
       /\ \E rest \in {CharsSkip(raw[1].message, n) :
                          n \in 0..Len(raw[1].message)} :
            /\ IsLineBreakTrimOf(rest, AfterFirst(raw[1].message, ENDTHINK))
            /\ IsNormalizedEndOf(yielded[1].message, rest)

--------------------------------------------------------------------------
\* the chunks of raw that have gone through OutputNormalizer::next
ProcessedRaw == SubSeq(raw, 1, IF pc = "normalize" THEN Len(raw) - 1 ELSE Len(raw))

\* the chunks are yielded in the order in which they were pulled
YieldedInOrder ==
    \A k \in 1..Len(yielded_from) :
        /\ yielded_from[k] \in 1..Len(raw)
        /\ (k > 1 => yielded_from[k - 1] < yielded_from[k])

\* the rule for a chunk that follows a yielded chunk: it is yielded, with
\* an empty text rewritten to one newline and any other text unchanged
FlowingRule(j) ==
    /\ IsYielded(j)
    /\ YieldedAs(j).message =
         (IF raw[j].message = << >> THEN NL ELSE raw[j].message)
    /\ SameUsage(YieldedAs(j), raw[j])

\* C3 as stated: streamed, keep_think_block = true: every chunk pulled is
\* yielded, in order, with its text unmodified.
C3_KeepYieldsEveryChunkUnmodified ==
    (Streamed /\ keep_think_block) => yielded = ProcessedRaw

\* C3 as amended: streamed, keep_think_block = true: no chunk is elided as
\* part of a think block and the chunks are yielded in order, <think> and
\* </think> as chunks of their own; until a chunk has been yielded a chunk
\* falls under the first-visible rule (leading whitespace stripped,
\* suppressed iff then empty and without usage metadata), and after that
\* every chunk is yielded, an empty text rewritten to "\n" and any other
\* text unmodified.
C3_KeepYieldsUnderVisibleRules ==
    (Streamed /\ keep_think_block)
    => /\ ~inside_think_block
       /\ YieldedInOrder
       /\ \A j \in 1..Len(raw) :
            Processed(j) =>
                IF YieldedBefore(j) THEN FlowingRule(j)
                ELSE FirstVisibleRule(j)

C3_Witness ==
    /\ Streamed /\ keep_think_block /\ Terminated
    /\ Len(raw) = 3 /\ Len(yielded) = 3
    /\ raw[1].message = THINK /\ yielded[1].message = THINK
    /\ raw[2].message = ENDTHINK /\ yielded[2].message = ENDTHINK
    /\ raw[3].message = << >> /\ yielded[3].message = NL

--------------------------------------------------------------------------
\* C4: complete mode: every yielded text ends with exactly one "\n" that no
\* whitespace character precedes, for either keep_think_block; with
\* keep_think_block = true the text before that newline is the input text
\* without its trailing whitespace, the think block kept.
C4_CompleteTrailingNewline ==
    no_stream
    => \A k \in 1..Len(yielded) :
         LET m == yielded[k].message
         IN  /\ m # << >>
             /\ m[Len(m)] = "\n"
             /\ (Len(m) > 1 => ~IsWhitespace(m[Len(m) - 1]))
             /\ keep_think_block
                  => IsNormalizedEndOf(m, raw[yielded_from[k]].message)

C4_Witness ==
    /\ no_stream /\ keep_think_block /\ Terminated
    /\ Len(yielded) = 1
    /\ starts_with(raw[1].message, THINK)
    /\ Contains(raw[1].message, ENDTHINK)
    /\ starts_with(yielded[1].message, THINK)
    /\ Len(yielded[1].message) < Len(raw[1].message)

--------------------------------------------------------------------------
Last(q) == q[Len(q)]

\* the last raw chunk lies in an elided think block: streamed,
\* keep_think_block = false, the first raw chunk is <think> and no chunk
\* before the last one is </think>
LastRawInThinkBlock ==
    /\ Streamed /\ ~keep_think_block
    /\ raw[1].message = THINK
    /\ ~\E c \in 2..(Len(raw) - 1) : raw[c].message = ENDTHINK

\* the usage metadata of the last raw chunk is on the last yielded chunk
\* (when nothing was yielded, the last raw chunk carried none)
LastUsageForwarded ==
    IF yielded = << >> THEN NoUsage(Last(raw))
    ELSE SameUsage(Last(yielded), Last(raw))

\* C5 as stated: for every chunk sequence, mode and keep_think_block, the
\* prompt_tokens/approximate_total pair of the last raw chunk before
\* termination is on the last chunk the normalizer yields.
C5_LastUsageAlwaysForwarded ==
    (Terminated /\ raw # << >>) => LastUsageForwarded

\* C5 as amended: the pair of the last raw chunk is on the last yielded
\* chunk unless the last raw chunk lies in an elided think block; then
\* nothing at all is yielded and the pair is dropped.
C5_LastUsageForwardedUnlessElided ==
    (Terminated /\ raw # << >>)
    => IF LastRawInThinkBlock THEN yielded = << >>
       ELSE /\ LastUsageForwarded
            /\ yielded # << >> => yielded_from[Len(yielded)] = Len(raw)

C5_Witness ==
    /\ Streamed /\ ~keep_think_block /\ Terminated
    /\ Len(raw) = 3 /\ raw[1].message = THINK /\ raw[2].message = ENDTHINK
    /\ ~NoUsage(raw[3])
    /\ Len(yielded) = 1 /\ SameUsage(yielded[1], raw[3])

--------------------------------------------------------------------------
\* C6: streamed mode, either keep_think_block: once a chunk has been
\* yielded, every raw chunk is yielded, one with empty text as "\n" with
\* its usage metadata unchanged, one with non-empty text unchanged.
C6_EmptyTextBecomesNewline ==
    Streamed
    => \A j \in 1..Len(raw) :
         (Processed(j) /\ YieldedBefore(j))
         => /\ IsYielded(j)
            /\ SameUsage(YieldedAs(j), raw[j])
            /\ raw[j].message = << >> => YieldedAs(j).message = << "\n" >>
            /\ raw[j].message # << >> => YieldedAs(j).message = raw[j].message

C6_Witness ==
    /\ Streamed /\ keep_think_block /\ Terminated
    /\ Len(raw) = 3 /\ Len(yielded) = 3
    /\ raw[2].message = << >> /\ NoUsage(raw[2])
    /\ yielded[2].message = << "\n" >>
    /\ raw[3].message = << >> /\ ~NoUsage(raw[3])
    /\ yielded[3].message = << "\n" >> /\ SameUsage(yielded[3], raw[3])

\* C7: streamed mode: a chunk that is not in an elided think block and that
\* no yielded chunk precedes has its leading whitespace stripped and is
\* suppressed iff the stripped text is empty and it carries neither
\* prompt_tokens nor approximate_total; so the first chunk yielded has no
\* leading whitespace.
C7_FirstVisibleChunkTrimmed ==
    Streamed
    => /\ \A j \in 1..Len(raw) :
            (Processed(j) /\ ~YieldedBefore(j)
                /\ ~(~keep_think_block /\ raw[1].message = THINK
                        /\ (FirstCloser = 0 \/ j <= FirstCloser)))
            => FirstVisibleRule(j)
       /\ (yielded # << >> /\ yielded[1].message # << >>)
            => ~IsWhitespace(yielded[1].message[1])

C7_Witness ==
    /\ Streamed /\ ~keep_think_block /\ Terminated
    /\ Len(raw) = 3 /\ Len(yielded) = 2
    /\ raw[1].message = << "\n", "\n" >> /\ yielded_from[1] = 2
    /\ raw[2].message = << " ", "b" >> /\ yielded[1].message = << "b" >>
    /\ raw[3].message = << " ", "b" >> /\ yielded[2].message = << " ", "b" >>

--------------------------------------------------------------------------
\* Vocabulary of the lines of a streamed body

\* the lines read so far
Consumed == Len(body) - Len(reader)

\* a line without its line terminator
LineText(l) == SelectSeq(l, LAMBDA x : x \notin {CR, LF})

Readable(l) == InvalidByte \notin Range(l)
HasDataPrefix(l) == starts_with(LineText(l), DataPrefix)
Payload(l) == CharsSkip(LineText(l), Len(DataPrefix))
IsJsonText(p) == Len(p) = 1 /\ p[1].ch = "{}"

IsEmptyLine(l) == LineText(l) = << >>
IsDoneLine(l) == Readable(l) /\ HasDataPrefix(l) /\ Payload(l) = DoneText
IsChunkLine(l) == Readable(l) /\ HasDataPrefix(l) /\ IsJsonText(Payload(l))

\* a non-empty line that lacks the prefix
LacksPrefix(l) == Readable(l) /\ ~IsEmptyLine(l) /\ ~HasDataPrefix(l)

\* a line whose payload is neither the sentinel nor valid JSON
HasBadPayload(l) ==
    /\ Readable(l) /\ HasDataPrefix(l)
    /\ Payload(l) # DoneText /\ ~IsJsonText(Payload(l))

\* the number of chunk lines among the first n lines of the body
ChunkLinesBefore(n) == Cardinality({j \in 1..(n - 1) : IsChunkLine(body[j])})

\* C8: streamed mode: a non-empty line that lacks the "data: " prefix, or
\* whose payload is not valid JSON, ends the chunk sequence at that line
\* with the error logged and no panic: the chunks of the earlier lines
\* have been produced, none is produced for that line, no later line is
\* read.
C8_MalformedLineEndsSequence ==
    Streamed
    => \A i \in 1..Consumed :
         (LacksPrefix(body[i]) \/ HasBadPayload(body[i]))
         => /\ i = Consumed
            /\ Terminated
            /\ ended = (IF LacksPrefix(body[i]) THEN "server sent bad line"
                        ELSE "server sent bad JSON")
            /\ log # << >> /\ log[1] = ended
            /\ Len(raw) = ChunkLinesBefore(i)
            /\ exit_status # Some(101)

C8_Witness ==
    /\ Streamed /\ pc = "exited"
    /\ Len(body) = 3 /\ Consumed = 2
    /\ IsChunkLine(body[1]) /\ HasBadPayload(body[2]) /\ IsChunkLine(body[3])
    /\ Len(raw) = 1
    /\ log = << "server sent bad JSON" >>

\* C9: every fatal error of an invocation (transport error, malformed
\* complete-mode response, malformed streamed line) makes the process exit
\* with a non-zero status after the error is reported.
C9_FatalErrorExitsNonZero ==
    (pc = "exited"
        /\ \/ (IsSome(result) /\ Unwrap(result) # "Ok")
           \/ ended \in {"server sent bad line", "server sent bad JSON"})
    => /\ log # << >>
       /\ exit_status # Some(0)

\* C10: streamed mode: a line whose payload is [DONE] ends the sequence
\* without a chunk for that line and without an error; the normalizer
\* yields only chunks it derived from the raw chunks pulled before the
\* sentinel, none at the end of the stream.
C10_DoneEndsSequence ==
    Streamed
    => \A i \in 1..Consumed :
         IsDoneLine(body[i])
         => /\ i = Consumed
            /\ Terminated
            /\ ended = "[DONE]"
            /\ log = << >>
            /\ Len(raw) = ChunkLinesBefore(i)
            /\ Len(yielded) <= Len(raw)
            /\ YieldedInOrder

C10_Witness ==
    /\ Streamed /\ pc = "exited"
    /\ Len(body) = 3 /\ Consumed = 2
    /\ IsChunkLine(body[1]) /\ IsDoneLine(body[2]) /\ IsChunkLine(body[3])
    /\ Len(raw) = 1 /\ Len(yielded) = 1
    /\ exit_status = Some(0)

--------------------------------------------------------------------------
\* Vocabulary of the complete-mode body

\* the field has the type get_complete_output reads it with
IsString(v) == v.t = "str"
IsUnsigned(v) == v.t = "num" /\ v.n >= 0

\* the body is one JSON document with the three fields, each of its type
AcceptableBody(b) ==
    /\ IsJsonText(b)
    /\ IsString(b[1].doc[1].message_content)
    /\ IsUnsigned(b[1].doc[1].prompt_tokens)
    /\ IsString(b[1].doc[1].approximate_total)

\* a response arrived for the request
Responded == requests = 1 /\ body # << >>

\* C11: complete mode: the response is accepted only if
\* choices[0].message.content is a string, usage.prompt_tokens an unsigned
\* integer and usage.approximate_total a string.  Otherwise (a field
\* missing or of another type, or a body that is not JSON) send returns an
\* error: no chunk is produced and nothing is printed.  An accepted
\* response is no error of send.
C11_CompleteResponseValidated ==
    (no_stream /\ Responded)
    => IF AcceptableBody(body)
       THEN result \in {None, Some("Ok")}
       ELSE /\ Terminated
            /\ IsSome(result) /\ Unwrap(result) # "Ok"
            /\ log = (IF pc = "exited" THEN << Unwrap(result) >> ELSE << >>)
            /\ iter_output = None
            /\ raw = << >> /\ yielded = << >> /\ stdout = << >>

C11_Witness ==
    /\ no_stream /\ pc = "exited"
    /\ body = << JsonText(Document(JNull, JStr(<< "a" >>), JNum(2), JNull)) >>
    /\ result = Some("Err: malformed response")
    /\ raw = << >> /\ stdout = << >>

\* C12: complete mode: the adapter produces exactly one chunk and then
\* reports its end, and the normalizer never suppresses that chunk: a
\* successful complete-mode response results in exactly one yielded chunk.
C12_CompleteYieldsExactlyOne ==
    no_stream
    => /\ Len(raw) <= 1
       /\ raw # << >> => iter_output = None
       /\ Len(yielded) = Len(ProcessedRaw)
       /\ (Responded /\ AcceptableBody(body) /\ Terminated)
          => /\ Len(raw) = 1 /\ Len(yielded) = 1
             /\ ended = "taken"
             /\ result = Some("Ok")

C12_Witness ==
    /\ no_stream /\ ~keep_think_block /\ pc = "exited"
    /\ body = new_complete_output_reader(<< THINK, ENDTHINK >>)
    /\ Len(raw) = 1 /\ Len(yielded) = 1
    /\ yielded[1].message = NL
    /\ ended = "taken"

\* the document of a chunk line
LineDoc(l) == Payload(l)[1].doc[1]

UsagePaired(o) == IsSome(o.prompt_tokens) <=> IsSome(o.approximate_total)

\* C14: in every chunk produced by the adapter and in every yielded chunk,
\* prompt_tokens and approximate_total are both present or both absent.
C14_UsagePairedInEveryChunk ==
    /\ \A j \in 1..Len(raw) : UsagePaired(raw[j])
    /\ \A k \in 1..Len(yielded) : UsagePaired(yielded[k])

--------------------------------------------------------------------------
\* Vocabulary of a call of resolve_prompt

Called == resolved # None
TheCall == Unwrap(resolved)

\* the question is text: given, and not starting with '@'
QuestionIsText ==
    /\ IsSome(TheCall.question)
    /\ (Unwrap(TheCall.question) = << >> \/ Unwrap(TheCall.question)[1] # "@")

ReturnedErr(m) ==
    /\ ~TheCall.result.ok
    /\ TheCall.result.error = m
    /\ TheCall.result.prompt = None

ReturnedOk(p) ==
    /\ TheCall.result.ok
    /\ TheCall.result.prompt = Some(p)

\* C15: resolve_prompt with a question that does not start with '@': an
\* empty question gives Err("prompt is empty") whatever the defaults; a
\* non-empty question gives a prompt with an empty label, that question
\* and the user's model, else the default model, and
\* Err("no default model specified") if there is neither.  The default
\* prompt and the configured prompts play no part.
C15_TextQuestionResolved ==
    (Called /\ QuestionIsText)
    => LET x == Unwrap(TheCall.question)
           user == TheCall.model
           default == TheCall.config.default_model
       IN  IF x = << >> THEN ReturnedErr("prompt is empty")
           ELSE IF IsSome(user)
           THEN ReturnedOk([label |-> << >>, question |-> x, model |-> user])
           ELSE IF IsSome(default)
           THEN ReturnedOk([label |-> << >>, question |-> x,
                            model |-> default])
           ELSE ReturnedErr("no default model specified")

C15_Witness ==
    /\ Called
    /\ TheCall.config.default_prompt = Some(LabelFoo)
    /\ TheCall.config.prompt = make_prompts
    /\ TheCall.config.default_model = Some("m")
    /\ TheCall.question = Some(<< ".", ".", "." >>)
    /\ TheCall.model = None
    /\ ReturnedOk([label |-> << >>, question |-> << ".", ".", "." >>,
                   model |-> Some("m")])

\* the label as it reads inside a message
LabelText(l) ==
    CASE l = LabelFoo -> "foo"
      [] l = LabelBar -> "bar"
      [] l = LabelAsdf -> "asdf"
      [] l = << >> -> ""

\* the places of the configured prompts that carry the label
Labelled(l) ==
    {i \in 1..Len(TheCall.config.prompt) : TheCall.config.prompt[i].label = l}

\* the prompt expected for the label: the first that carries it, its model
\* the user's, else its own, else the default model
ExpectedPrompt(l) ==
    LET i == CHOOSE i \in Labelled(l) : \A k \in Labelled(l) : i <= k
        p == TheCall.config.prompt[i]
    IN  [label |-> p.label, question |-> p.question,
         model |-> IF IsSome(TheCall.model) THEN TheCall.model
                   ELSE IF IsSome(p.model) THEN p.model
                   ELSE TheCall.config.default_model]

\* C16: resolve_prompt with no question, or with a question '@label': no
\* question and no default prompt gives Err("no default prompt
\* specified"); a default label that no prompt carries gives
\* Err("default prompt 'L' not found"); an '@label' that no prompt carries
\* gives Err("prompt 'L' not found"); otherwise the first configured
\* prompt with the label is returned, its model the user's, else its own,
\* else the default model.
C16_LabelledQuestionResolved ==
    (Called /\ ~QuestionIsText)
    => IF IsNone(TheCall.question)
       THEN IF IsNone(TheCall.config.default_prompt)
            THEN ReturnedErr("no default prompt specified")
            ELSE LET l == Unwrap(TheCall.config.default_prompt)
                 IN  IF Labelled(l) = {}
                     THEN ReturnedErr("default prompt '" \o LabelText(l)
                                          \o "' not found")
                     ELSE ReturnedOk(ExpectedPrompt(l))
       ELSE LET l == Tail(Unwrap(TheCall.question))
            IN  IF Labelled(l) = {}
                THEN ReturnedErr("prompt '" \o LabelText(l) \o "' not found")
                ELSE ReturnedOk(ExpectedPrompt(l))

C16_Witness ==
    /\ Called
    /\ TheCall.config.prompt = << PromptFooNoModel, PromptFoo >>
    /\ TheCall.config.default_model = Some("m")
    /\ TheCall.question = Some(<< "@" >> \o LabelFoo)
    /\ TheCall.model = None
    /\ ReturnedOk([label |-> LabelFoo, question |-> << "b", "a", "z" >>,
                   model |-> Some("m")])

--------------------------------------------------------------------------
\* the text has no leading whitespace
NoLeadingWhitespace(t) == t = << >> \/ ~IsWhitespace(t[1])

\* C17: trimming leading whitespace is idempotent: for every text pulled,
\* trimming it twice gives what trimming it once gives; in streamed mode
\* the first visible chunk is left as it is by another trim, and when its
\* raw text had no leading whitespace it is yielded with that text.
C17_LeadingTrimIdempotent ==
    /\ \A j \in 1..Len(raw) :
         trim_start(trim_start(raw[j].message)) = trim_start(raw[j].message)
    /\ (Streamed /\ yielded # << >>)
       => /\ trim_start(yielded[1].message) = yielded[1].message
          /\ NoLeadingWhitespace(raw[yielded_from[1]].message)
             => yielded[1].message = raw[yielded_from[1]].message

C17_Witness ==
    /\ Streamed /\ pc = "exited"
    /\ Len(raw) = 3
    /\ raw[1].message = << "\n", "\n" >>
    /\ raw[2].message = << "a" >>
    /\ raw[3].message = << " ", "b" >>
    /\ yielded_from = << 2, 3 >>
    /\ yielded[1].message = << "a" >>
    /\ yielded[2].message = << " ", "b" >>

--------------------------------------------------------------------------
\* the stream is over and its last raw chunk has empty text
EndsWithEmptyChunk ==
    /\ Streamed /\ ~keep_think_block /\ Terminated
    /\ raw # << >> /\ Last(raw).message = << >>

\* C18 as stated: streamed, keep_think_block = false: whenever the final
\* raw chunk before termination has empty text, the last chunk yielded has
\* the text "\n" and carries that final chunk's usage metadata.
C18_TrailingNewlineAlways ==
    EndsWithEmptyChunk
    => /\ yielded # << >>
       /\ Last(yielded).message = NL
       /\ SameUsage(Last(yielded), Last(raw))

\* C18 as amended: the final empty chunk becomes the trailing newline,
\* with its usage metadata, when a chunk was yielded before it.  When none
\* was, it is suppressed if it lies in the elided think block or carries no
\* usage metadata, and is otherwise yielded with its empty text and its
\* usage metadata: no newline is emitted.
C18_TrailingNewlineAfterVisible ==
    EndsWithEmptyChunk
    => LET n == Len(raw)
       IN  IF YieldedBefore(n)
           THEN /\ yielded_from[Len(yielded)] = n
                /\ Last(yielded).message = NL
                /\ SameUsage(Last(yielded), raw[n])
           ELSE IF LastRawInThinkBlock \/ NoUsage(raw[n])
           THEN yielded = << >>
           ELSE /\ yielded_from = << n >>
                /\ yielded[1].message = << >>
                /\ SameUsage(yielded[1], raw[n])

C18_Witness ==
    /\ EndsWithEmptyChunk /\ pc = "exited"
    /\ Len(raw) = 3
    /\ raw[1].message = << "\n", "\n" >> /\ NoUsage(raw[1])
    /\ raw[2].message = << "a" >>
    /\ raw[3] = Output(<< >>, Some(2), Some(FooBar))
    /\ yielded_from = << 2, 3 >>
    /\ yielded[2] = Output(NL, Some(2), Some(FooBar))

--------------------------------------------------------------------------
\* raw[j] is treated like ordinary content: by the rule of the first
\* visible chunk while nothing was yielded, and yielded afterwards
OrdinaryRule(j) ==
    IF YieldedBefore(j) THEN FlowingRule(j) ELSE FirstVisibleRule(j)

\* C19: streamed, keep_think_block = false: elision starts only at a very
\* first raw chunk that is exactly <think>.  If the first raw chunk is
\* anything else, inside_think_block never becomes true and every chunk,
\* a later <think> or </think> among them, is treated like ordinary
\* content; and once a closing </think> chunk has been elided, no later
\* chunk is elided, a later <think> neither.
C19_ElisionOnlyFromFirstChunk ==
    (Streamed /\ ~keep_think_block /\ raw # << >>)
    => /\ inside_think_block => raw[1].message = THINK
       /\ raw[1].message # THINK
          => \A j \in 1..Len(raw) : Processed(j) => OrdinaryRule(j)
       /\ (raw[1].message = THINK /\ FirstCloser # 0
              /\ Processed(FirstCloser))
          => /\ ~inside_think_block
             /\ \A j \in (FirstCloser + 1)..Len(raw) :
                  Processed(j) => OrdinaryRule(j)

\* <think> with a trailing character first, then <think> and </think>:
\* all three are yielded
C19_Witness ==
    /\ Streamed /\ ~keep_think_block /\ pc = "exited"
    /\ Len(raw) = 3
    /\ raw[1].message = THINK \o << "a" >>
    /\ raw[2].message = THINK /\ raw[3].message = ENDTHINK
    /\ yielded_from = << 1, 2, 3 >>
    /\ yielded[2].message = THINK /\ yielded[3].message = ENDTHINK
    /\ ~inside_think_block

\* a think block, closed, and a second <think>: it is yielded
ReopenedThinkBlock ==
    /\ Streamed /\ ~keep_think_block /\ pc = "exited"
    /\ Len(raw) = 3
    /\ raw[1].message = THINK /\ raw[2].message = ENDTHINK
    /\ raw[3].message = THINK
    /\ yielded_from = << 3 >> /\ yielded[1].message = THINK

\* C20: streamed, keep_think_block = false: when the first raw chunk is
\* <think> and no later chunk is exactly </think>, every raw chunk is
\* suppressed: nothing is yielded and nothing printed, a final chunk that
\* carries usage metadata included.
C20_UnclosedThinkBlockYieldsNothing ==
    (Streamed /\ ~keep_think_block /\ raw # << >>
        /\ raw[1].message = THINK /\ FirstCloser = 0)
    => /\ yielded = << >> /\ yielded_from = << >>
       /\ item = None /\ stdout = << >>
       /\ prev_returned_output = None
       /\ Processed(1) => inside_think_block

C20_Witness ==
    /\ Streamed /\ ~keep_think_block /\ pc = "exited"
    /\ Len(raw) = 3
    /\ raw[1].message = THINK
    /\ raw[2].message = << "a" >>
    /\ raw[3] = Output(<< >>, Some(2), Some(FooBar))
    /\ yielded = << >> /\ stdout = << >>
    /\ result = Some("Ok")

--------------------------------------------------------------------------
\* complete mode, and the text of the chunk went through remove_think_block
ThinkBlockStripped == no_stream /\ ~keep_think_block /\ yielded # << >>

\* the text starts with <think> and holds a </think>
HasLeadingThinkBlock(m) == starts_with(m, THINK) /\ Contains(m, ENDTHINK)

\* C21: remove_think_block drops exactly the characters up to and
\* including the first </think>, and the line breaks that follow it
\* immediately, and nothing after them, for every text, one whose think
\* block holds characters of more than one byte included: the kept text
\* starts at the character that follows the closer, whether the position is
\* counted in bytes or in characters.
C21_ThinkBlockDroppedExactly ==
    (ThinkBlockStripped /\ HasLeadingThinkBlock(raw[1].message))
    => LET m == raw[1].message
           rest == AfterFirst(m, ENDTHINK)
       IN  /\ IsLineBreakTrimOf(remove_think_block(m), rest)
           /\ Unwrap(find(m, ENDTHINK)) + Len(ENDTHINK) = Len(m) - Len(rest)

\* C22: complete mode, keep_think_block = false: a text that does not start
\* with <think> (one where whitespace precedes the opener included), or
\* that starts with <think> and holds no </think>, has nothing removed by
\* the stripping of the think block: the yielded text is the whole input
\* with its trailing whitespace trimmed and one newline appended.
C22_NothingRemovedWithoutThinkBlock ==
    (ThinkBlockStripped /\ ~HasLeadingThinkBlock(raw[1].message))
    => /\ IsNormalizedEndOf(yielded[1].message, raw[1].message)
       /\ SameUsage(yielded[1], raw[1])

\* whitespace before the opener: the closed think block stays
C22_Witness ==
    /\ ThinkBlockStripped /\ pc = "exited"
    /\ raw[1].message = << " " >> \o THINK \o << "a" >> \o ENDTHINK
    /\ yielded[1].message = raw[1].message \o NL

\* an opener that is never closed: the text stays
UnclosedThinkBlockKept ==
    /\ ThinkBlockStripped /\ pc = "exited"
    /\ raw[1].message = THINK \o << "a", " " >>
    /\ yielded[1].message = THINK \o << "a" >> \o NL

--------------------------------------------------------------------------
\* the line is empty once its line breaks are trimmed
IsBlank(l) == Readable(l) /\ IsEmptyLine(l)

\* the number of blank lines that precede line i immediately
RECURSIVE BlankRun(_)
BlankRun(i) ==
    IF i > 1 /\ IsBlank(body[i - 1]) THEN 1 + BlankRun(i - 1) ELSE 0

\* C23: streamed mode: a line that is empty after its CR/LF are trimmed is
\* skipped without an error and without a chunk, and the line that follows
\* any number of such lines is treated as it is when read alone: the same
\* chunk, or the same end of the sequence (the buffer that accumulates the
\* skipped lines within the pull does not change the result).
C23_EmptyLinesSkipped ==
    Streamed
    => \A i \in 1..Consumed :
         /\ IsBlank(body[i])
            => /\ Len(raw) >= ChunkLinesBefore(i)
               /\ i = Consumed
                  => /\ Len(raw) = ChunkLinesBefore(i)
                     /\ log = << >>
                     /\ ended \in {"", "end of input"}
         /\ (Readable(body[i]) /\ ~IsBlank(body[i]) /\ BlankRun(i) > 0)
            => LET alone == ParseLine(body[i])
                   k == ChunkLinesBefore(i) + 1
               IN  IF alone.kind = "some"
                   THEN /\ k <= Len(raw)
                        /\ raw[k] = Unwrap(alone.output)
                   ELSE /\ i = Consumed /\ Len(raw) = k - 1
                        /\ log = alone.error
                        /\ ended = (IF IsSome(alone.error)
                                    THEN Unwrap(alone.error) ELSE "[DONE]")

C23_Witness ==
    /\ Streamed /\ pc = "exited"
    /\ body = << BlankLine, BlankLine, ContentLine(<< " ", "b" >>) >>
    /\ Consumed = 3
    /\ raw = << Output(<< " ", "b" >>, None, None) >>
    /\ log = << >>
    /\ ended = "end of input"

--------------------------------------------------------------------------
\* C24: streamed mode has no silent failure: whenever the chunk sequence
\* ends for another reason than the [DONE] sentinel or the end of the
\* input, a failure to read a line from the body included (an I/O error, a
\* line that is not valid UTF-8), an error message has been reported.
C24_NoSilentFailure ==
    (Streamed /\ ended \notin {"", "[DONE]", "end of input"})
    => log # << >>

--------------------------------------------------------------------------
\* the line ends the chunk sequence: the sentinel or a malformed line
EndsSequence(l) == IsDoneLine(l) \/ LacksPrefix(l) \/ HasBadPayload(l)

\* C25: once the streamed chunk sequence has reported its end, every later
\* pull on the adapter and on the normalizer reports the end too: no line
\* that follows [DONE] or a malformed line is read, and no chunk is ever
\* produced from one.
C25_EndIsFinal ==
    Streamed
    => \A i \in 1..Consumed :
         EndsSequence(body[i])
         => /\ i = Consumed
            /\ Len(raw) = ChunkLinesBefore(i)
            /\ Len(yielded) <= ChunkLinesBefore(i)

--------------------------------------------------------------------------
\* the errors that Server::send returns
SendErrors ==
    { "Err: no model specified", "Err: transport", "Err: not valid JSON",
      "Err: malformed response", "Err: usage.prompt_tokens is not integer" }

\* Config::load, resolve_prompt and Context::load have succeeded
SetupSucceeded ==
    /\ pc # "start"
    /\ result = None \/ result = Some("Ok") \/ Unwrap(result) \in SendErrors

\* the resolved prompt had a model
HadModel ==
    /\ result # Some("Err: no model specified")
    /\ (pc = "send" \/ exit_status = Some(101)) => IsSome(prompt_model)

\* the process panicked on --rag
Panicked == exit_status = Some(101)

--------------------------------------------------------------------------
\* C27: the normalizer only suppresses or rewrites, in either mode and
\* with either flag: the yielded chunks are, in order, chunks of the raw
\* sequence (never more than were pulled, none made up, none twice, none
\* out of order); each carries the prompt_tokens and the approximate_total
\* of the raw chunk it came from; and in streamed mode every yielded chunk
\* after the first has the text of its raw chunk unless that text is
\* empty.
C27_OnlySuppressesOrRewrites ==
    /\ Len(yielded) = Len(yielded_from)
    /\ Len(yielded) <= Len(ProcessedRaw)
    /\ \A k \in 1..Len(yielded) :
         /\ yielded_from[k] \in 1..Len(ProcessedRaw)
         /\ k > 1 => yielded_from[k - 1] < yielded_from[k]
         /\ SameUsage(yielded[k], raw[yielded_from[k]])
         /\ (Streamed /\ k > 1 /\ raw[yielded_from[k]].message # << >>)
            => yielded[k].message = raw[yielded_from[k]].message

C27_Witness ==
    /\ Streamed /\ pc = "exited"
    /\ Len(raw) = 3
    /\ raw[1].message = << "\n", "\n" >> /\ NoUsage(raw[1])
    /\ raw[2].message = << " ", "b" >>
    /\ raw[3].message = << " ", "b" >>
    /\ yielded_from = << 2, 3 >>
    /\ yielded[1].message = << "b" >>
    /\ yielded[2].message = << " ", "b" >>

--------------------------------------------------------------------------
\* the opener has been elided and no closer yet: the first chunk read was
\* <think> and no chunk read after it was </think>
BetweenOpenerAndCloser ==
    /\ raw # << >> /\ Processed(1) /\ raw[1].message = THINK
    /\ ~\E c \in 2..Len(raw) : Processed(c) /\ raw[c].message = ENDTHINK

\* inside_think_block is true only if keep_think_block is false, the mode
\* is streamed, a chunk has been read and none has been yielded; it is true
\* exactly from the elided opener to the first closer
NormalizerStateInvariant ==
    /\ inside_think_block
       => /\ ~keep_think_block /\ ~no_stream
          /\ ever_read
          /\ prev_returned_output = None /\ yielded = << >>
    /\ inside_think_block
       <=> (~keep_think_block /\ ~no_stream /\ BetweenOpenerAndCloser)

\* one step: the flags of the construction stay, ever_read and
\* prev_returned_output are never reset, and inside_think_block turns true
\* only at the first chunk read and turns false only at a </think> chunk
NormalizerStateStep ==
    /\ keep_think_block' = keep_think_block
    /\ no_stream' = no_stream
    /\ ever_read => ever_read'
    /\ IsSome(prev_returned_output) => IsSome(prev_returned_output')
    /\ (~inside_think_block /\ inside_think_block')
       => (~ever_read /\ ever_read' /\ Len(raw) = 1)
    /\ (inside_think_block /\ ~inside_think_block')
       => (ever_read /\ Last(raw).message = ENDTHINK)

\* C28: the invariants of the normalizer's state, in every reachable state:
\* keep_think_block and no_stream never change; ever_read never returns to
\* false and prev_returned_output never to absent; inside_think_block is
\* true only if keep_think_block is false, the mode is streamed, a chunk
\* has been read and none has been yielded; inside_think_block turns from
\* false to true at most once (at the first chunk read, and ever_read is
\* true from then on) and from true to false at most once.
C28_NormalizerStateInvariants ==
    []NormalizerStateInvariant /\ [][NormalizerStateStep]_vars

C28_Witness ==
    /\ Streamed /\ ~keep_think_block /\ pc = "exited"
    /\ Len(raw) = 3
    /\ raw[1].message = THINK /\ raw[2].message = ENDTHINK
    /\ raw[3].message = THINK
    /\ ~inside_think_block /\ ever_read
    /\ IsSome(prev_returned_output)
    /\ Unwrap(prev_returned_output).message = THINK

--------------------------------------------------------------------------
\* the texts of the chunks of q
RECURSIVE Texts(_)
Texts(q) ==
    IF q = << >> THEN << >> ELSE << Head(q).message >> \o Texts(Tail(q))

\* the tokens of the stream: the texts of its chunks but the last
Tokens == Texts(SubSeq(raw, 1, Len(raw) - 1))

\* <think> and </think> arrive as chunks of their own or not at all
SentinelsWhole ==
    \A j \in 1..Len(Tokens) :
        /\ Contains(Tokens[j], THINK) => Tokens[j] = THINK
        /\ Contains(Tokens[j], ENDTHINK) => Tokens[j] = ENDTHINK

\* a finished stream built as tests::new_streamed_output_reader builds it:
\* one line per token, then the empty chunk with the usage metadata
TokenStreamDone ==
    /\ Streamed /\ Terminated
    /\ raw # << >> /\ Len(raw) = Len(body)
    /\ body = new_streamed_output_reader(Tokens)
    /\ SentinelsWhole

\* what complete mode yields for the concatenated tokens
CompleteText ==
    NormalizeComplete(keep_think_block,
                      Output(Join(Tokens), Some(2), Some(FooBar))).message

\* C29: mode equivalence: for a token sequence in which <think> and
\* </think>, if present, each arrive as one chunk and which ends with an
\* empty chunk carrying the usage metadata, the concatenated texts yielded
\* in streamed mode are the text yielded in complete mode for the
\* concatenated tokens, with the same keep_think_block.
C29_ModesYieldSameText ==
    TokenStreamDone => Join(Texts(yielded)) = CompleteText

\* the test sequence: both modes give the same text
TestModesAgree ==
    /\ TokenStreamDone /\ body = TestStream
    /\ Join(Texts(yielded)) = CompleteText

\* a think block with a two-byte character: streamed gives "a\n", complete
\* gives "\n"
WideThinkModesDiffer ==
    /\ TokenStreamDone /\ ~keep_think_block
    /\ Tokens = WideThinkTokens
    /\ Join(Texts(yielded)) = << "a", "\n" >>
    /\ CompleteText = << "\n" >>

--------------------------------------------------------------------------
\* how far the run is: before the request, pulling, returned, exited
Phase ==
    CASE pc = "start" -> 4
      [] pc = "send" -> 3
      [] pc \in {"next", "read", "normalize", "print"} -> 2
      [] pc = "returned" -> 1
      [] pc = "exited" -> 0

\* the place within one turn of the consumer's loop
Place ==
    CASE pc = "normalize" -> 3
      [] pc = "print" -> 2
      [] pc = "next" -> 1
      [] OTHER -> 0

\* what is left to do while pulling: the lines (or the complete chunk) not
\* yet consumed, then the place within the turn
Work == 4 * (Len(reader) + Len(iter_output)) + Place

\* the lines are consumed front to back, each once: what is left of the
\* body is always its tail
SinglePass ==
    Streamed => /\ Consumed \in 0..Len(body)
                /\ reader = SubSeq(body, Consumed + 1, Len(body))

\* the run can go on until the process has exited: every step is guarded by
\* the place alone, and the value the step unwraps at that place is there
NeverStuck ==
    /\ pc \in {"start", "send", "next", "read", "normalize", "print",
               "returned", "exited"}
    /\ pc = "normalize" => IsSome(output)
    /\ pc = "print" => IsSome(item)
    /\ pc = "returned" => IsSome(result)
    /\ pc = "exited" => IsSome(exit_status)

\* every step brings the end nearer, and no step puts a line back
Progresses ==
    /\ Phase' < Phase \/ (Phase' = Phase /\ Work' < Work)
    /\ pc # "send" => Len(reader') <= Len(reader)
    /\ pc # "send" => body' = body

\* C30: termination: for every finite streamed body (any mix of empty
\* lines, chunk lines, malformed lines and [DONE]) and for every
\* complete-mode chunk, each pull on the normalizer returns after
\* consuming finitely many lines, each line is consumed at most once, and
\* consuming the normalizer front to back reaches the end of the sequence:
\* no state before the exit is stuck, and every step lowers a measure that
\* is bounded by the number of lines of the body.
C30_PullsTerminate ==
    [](SinglePass /\ NeverStuck) /\ [][Progresses]_vars

C30_Witness ==
    /\ Streamed /\ pc = "exited"
    /\ body = << BlankLine, ContentLine(<< "a" >>), BlankLine >>
    /\ reader = << >> /\ Consumed = 3
    /\ Len(raw) = 1 /\ Len(yielded) = 1
    /\ ended = "end of input"
    /\ result = Some("Ok")

=============================================================================
